---- MODULE Spec2Model ----
(***************************************************************************)
(* A model of cfl's FileProcessor (src/src/processor.rs) together with the *)
(* construction paths in src/src/lib.rs and src/src/bin/cfl.rs.            *)
(*                                                                         *)
(* Text is modelled by TLA+ strings (ASCII only, so Len is the byte        *)
(* length that str::len returns).  A path is the sequence of its           *)
(* components as std::path::Path::components yields them: "/" is the root  *)
(* component of an absolute path, "." a leading current-directory          *)
(* component.                                                              *)
(***************************************************************************)
EXTENDS Integers, Sequences, FiniteSets, TLC

(***************************************************************************)
(* Strings                                                                 *)
(***************************************************************************)

\* The character U+0060: a string literal cannot hold it unquoted.
Backtick == Head("`'")

RECURSIVE SplitFrom(_, _, _)
SplitFrom(s, sep, cur) ==
    IF s = "" THEN <<cur>>
    ELSE IF Head(s) = sep THEN <<cur>> \o SplitFrom(Tail(s), sep, "")
    ELSE SplitFrom(Tail(s), sep, cur \o Head(s))

\* str::split(','): the pieces between the separators; "" yields one empty piece.
SplitComma(s) == SplitFrom(s, ",", "")

RECURSIVE JoinWith(_, _)
JoinWith(parts, sep) ==
    IF parts = <<>> THEN ""
    ELSE IF Len(parts) = 1 THEN parts[1]
    ELSE parts[1] \o sep \o JoinWith(Tail(parts), sep)

\* The number of (possibly overlapping) occurrences of needle in hay.
Occurrences(hay, needle) ==
    LET n == Len(needle)
        first == SubSeq(needle, 1, 1)
    IN  IF n = 0 THEN Len(hay) + 1
        ELSE
        Cardinality({i \in 1..(Len(hay) - n + 1) :
                        /\ SubSeq(hay, i, i) = first
                        /\ SubSeq(hay, i, i + n - 1) = needle})

\* str::contains
StrContains(hay, needle) ==
    \E i \in 1..(Len(hay) - Len(needle) + 1) :
        SubSeq(hay, i, i + Len(needle) - 1) = needle

IsPrefixStr(p, s) == Len(p) <= Len(s) /\ SubSeq(s, 1, Len(p)) = p

IsPrefixSeq(p, s) == Len(p) <= Len(s) /\ SubSeq(s, 1, Len(p)) = p

Reverse(seq) == [i \in 1..Len(seq) |-> seq[Len(seq) + 1 - i]]

(***************************************************************************)
(* Paths                                                                   *)
(***************************************************************************)

IsAbsolute(p) == p # <<>> /\ p[1] = "/"

\* Path::display: the components joined by the separator.
Display(p) ==
    IF IsAbsolute(p) THEN "/" \o JoinWith(Tail(p), "/") ELSE JoinWith(p, "/")

\* Path::file_name().and_then(to_str).unwrap_or(""): the last component when
\* it is a normal one.
FileName(p) ==
    IF p = <<>> \/ p[Len(p)] \in {"/", ".", ".."} THEN "" ELSE p[Len(p)]

\* Path::strip_prefix(base).unwrap_or(path)
StripPrefixOr(p, base) ==
    IF IsPrefixSeq(base, p) THEN SubSeq(p, Len(base) + 1, Len(p)) ELSE p

(***************************************************************************)
(* The file system the processor runs against.  It follows the fixture of  *)
(* src/tests/processor_test.rs (a repository with src/main.rs,             *)
(* src/test.rs, an ignored config.json, .gitignore and .git) and adds the  *)
(* cases the error paths of process_path need: a file that is not valid    *)
(* UTF-8, a directory that cannot be listed, an ignored directory and a    *)
(* symbolic link to a directory, and an empty directory .github whose name *)
(* begins like that of .git.                                               *)
(***************************************************************************)

\* The working directory of the process: relative paths resolve against it.
CWD == <<"/", "w">>

Dirs ==
    { CWD, CWD \o <<".git">>, CWD \o <<".github">>, CWD \o <<"src">>,
      CWD \o <<"target">>, CWD \o <<"priv">> }

Files ==
    { CWD \o <<".gitignore">>, CWD \o <<"config.json">>, CWD \o <<"bin.dat">>,
      CWD \o <<".git", "HEAD">>, CWD \o <<"src", "main.rs">>,
      CWD \o <<"src", "test.rs">>, CWD \o <<"target", "out.rs">> }

Links == { CWD \o <<"lnk">> }

LinkTarget(l) == CWD \o <<"src">>

\* The entries of a directory in the order read_dir returns them.
ReadDir(c) ==
    CASE c = CWD ->
           <<".git", ".github", ".gitignore", "bin.dat", "config.json", "lnk",
             "priv", "src", "target">>
      [] c = CWD \o <<".git">> -> <<"HEAD">>
      [] c = CWD \o <<"src">> -> <<"main.rs", "test.rs">>
      [] c = CWD \o <<"target">> -> <<"out.rs">>
      [] OTHER -> <<>>

\* Directories whose listing fails (permission denied).
UnlistableDirs == { CWD \o <<"priv">> }

\* Files fs::read_to_string fails on (not valid UTF-8).
UnreadableFiles == { CWD \o <<"bin.dat">> }

FileContent(c) ==
    CASE c = CWD \o <<".gitignore">> -> "*.json\ntarget/\n"
      [] c = CWD \o <<"config.json">> -> "{}"
      [] c = CWD \o <<".git", "HEAD">> -> "ref"
      [] c = CWD \o <<"src", "main.rs">> -> "fn main() {}"
      [] c = CWD \o <<"src", "test.rs">> -> "#[test]"
      [] c = CWD \o <<"target", "out.rs">> -> "out"
      [] OTHER -> ""

\* symlink_metadata: the kind of the node itself.
Kind(c) ==
    IF c \in Dirs THEN "dir"
    ELSE IF c \in Files THEN "file"
    ELSE IF c \in Links THEN "symlink"
    ELSE "none"

Absolute(p) ==
    IF IsAbsolute(p) THEN p
    ELSE CWD \o (IF p # <<>> /\ p[1] = "." THEN Tail(p) ELSE p)

RECURSIVE ResolveFrom(_, _, _)
ResolveFrom(acc, rest, followLast) ==
    IF rest = <<>> THEN acc
    ELSE LET step == acc \o <<Head(rest)>>
             follow == step \in Links /\ (followLast \/ Len(rest) > 1)
         IN  ResolveFrom(IF follow THEN LinkTarget(step) ELSE step,
                         Tail(rest), followLast)

\* fs::canonicalize: absolute, every symbolic link resolved.
Canonicalize(p) == ResolveFrom(<<"/">>, Tail(Absolute(p)), TRUE)

\* The node a path names, its last component not followed.
LNode(p) == ResolveFrom(<<"/">>, Tail(Absolute(p)), FALSE)

\* Mutant of PathExists: the existence check is missing.
PathExists_Always(p) == TRUE

\* Path::exists: the metadata of the path, links followed, can be read.
PathExists(p) == Kind(Canonicalize(p)) # "none"

EndsWith(s, suffix) ==
    Len(suffix) <= Len(s)
    /\ SubSeq(s, Len(s) - Len(suffix) + 1, Len(s)) = suffix

\* The rules of /w/.gitignore ("*.json" and "target/") applied to one node.
IgnoreMatched(c) ==
    LET name == c[Len(c)]
    IN  EndsWith(name, ".json") \/ (Kind(c) = "dir" /\ name = "target")

(***************************************************************************)
(* The walker WalkBuilder::new(path).hidden(false).git_ignore(true)        *)
(* .git_global(true).ignore(true).build() of the ignore crate: the root    *)
(* entry first and never filtered, then every entry below it depth first,  *)
(* an entry matched by an ignore rule skipped together with what is below  *)
(* it, links not followed except at the root, an Err item for a directory  *)
(* it cannot list.                                                         *)
(***************************************************************************)

\* The orders a directory listing may come in.
Orders == {"fwd", "rev"}

Listing(c, ord) == IF ord = "fwd" THEN ReadDir(c) ELSE Reverse(ReadDir(c))

OkEntry(p, ft) == [path |-> p, ft |-> ft, err |-> FALSE]

ErrEntry(p) == [path |-> p, ft |-> "none", err |-> TRUE]

RECURSIVE WalkDir(_, _, _)

\* Mutant of WalkChildren: an ignored entry is left out but, when it is a
\* directory, still descended into.
RECURSIVE WalkChildren_FilterOnly(_, _, _, _)
WalkChildren_FilterOnly(p, c, names, ord) ==
    IF names = <<>> THEN <<>>
    ELSE LET cp == p \o <<Head(names)>>
             cc == c \o <<Head(names)>>
         IN  (IF IgnoreMatched(cc) THEN <<>> ELSE <<OkEntry(cp, Kind(cc))>>)
             \o (IF Kind(cc) = "dir" THEN WalkDir(cp, cc, ord) ELSE <<>>)
             \o WalkChildren_FilterOnly(p, c, Tail(names), ord)

RECURSIVE WalkChildren(_, _, _, _)
WalkDir(p, c, ord) ==
    IF c \in UnlistableDirs THEN <<ErrEntry(p)>>
    ELSE WalkChildren(p, c, Listing(c, ord), ord)

WalkChildren(p, c, names, ord) ==
    IF names = <<>> THEN <<>>
    ELSE LET cp == p \o <<Head(names)>>
             cc == c \o <<Head(names)>>
         IN  (IF IgnoreMatched(cc) THEN <<>>
              ELSE <<OkEntry(cp, Kind(cc))>>
                   \o (IF Kind(cc) = "dir" THEN WalkDir(cp, cc, ord) ELSE <<>>))
             \o WalkChildren(p, c, Tail(names), ord)

Walk(root, ord) ==
    <<OkEntry(root, Kind(LNode(root)))>>
    \o (IF Kind(Canonicalize(root)) = "dir"
        THEN WalkDir(root, Canonicalize(root), ord)
        ELSE <<>>)

(***************************************************************************)
(* glob::Pattern, as FileProcessor uses it: Pattern::new compiles one      *)
(* piece of the comma-separated string into tokens or fails, and           *)
(* Pattern::matches tests a file name with the default MatchOptions.       *)
(* A character class holds single characters only (no a-z ranges).         *)
(***************************************************************************)

\* The character at 0-based index i.
Ch(s, i) == SubSeq(s, i + 1, i + 1)

IsSeparator(c) == c = "/"

Tok(t, c) == [t |-> t, c |-> c]

PatternErr == [ok |-> FALSE, tokens |-> <<>>]

RECURSIVE StarsEnd(_, _)
StarsEnd(chars, i) ==
    IF i < Len(chars) /\ Ch(chars, i) = "*" THEN StarsEnd(chars, i + 1) ELSE i

\* The offset of the first c in chars[from..], or -1.
RECURSIVE PositionFrom(_, _, _, _)
PositionFrom(chars, from, c, j) ==
    IF from + j >= Len(chars) THEN -1
    ELSE IF Ch(chars, from + j) = c THEN j
    ELSE PositionFrom(chars, from, c, j + 1)

PushRecursive(tokens) ==
    IF Len(tokens) > 1 /\ tokens[Len(tokens)].t = "AnyRecursiveSequence"
    THEN tokens
    ELSE Append(tokens, Tok("AnyRecursiveSequence", ""))

RECURSIVE ParseFrom(_, _, _)
ParseFrom(chars, i, tokens) ==
    IF i >= Len(chars) THEN [ok |-> TRUE, tokens |-> tokens]
    ELSE LET c == Ch(chars, i)
             n == Len(chars)
         IN
         CASE c = "?" -> ParseFrom(chars, i + 1, Append(tokens, Tok("AnyChar", "")))
           [] c = "*" ->
                LET j == StarsEnd(chars, i)
                    count == j - i
                IN  IF count > 2 THEN PatternErr
                    ELSE IF count = 2 THEN
                        IF j = 2 \/ IsSeparator(Ch(chars, j - count - 1)) THEN
                            IF j < n /\ IsSeparator(Ch(chars, j))
                            THEN ParseFrom(chars, j + 1, PushRecursive(tokens))
                            ELSE IF j = n
                            THEN ParseFrom(chars, j, PushRecursive(tokens))
                            ELSE PatternErr
                        ELSE PatternErr
                    ELSE ParseFrom(chars, j, Append(tokens, Tok("AnySequence", "")))
           [] c = "[" ->
                IF i + 4 <= n /\ Ch(chars, i + 1) = "!" THEN
                    LET j == PositionFrom(chars, i + 3, "]", 0)
                    IN  IF j < 0 THEN PatternErr
                        ELSE ParseFrom(chars, i + j + 4,
                                 Append(tokens,
                                     Tok("AnyExcept", SubSeq(chars, i + 3, i + 3 + j))))
                ELSE IF i + 3 <= n /\ Ch(chars, i + 1) # "!" THEN
                    LET j == PositionFrom(chars, i + 2, "]", 0)
                    IN  IF j < 0 THEN PatternErr
                        ELSE ParseFrom(chars, i + j + 3,
                                 Append(tokens,
                                     Tok("AnyWithin", SubSeq(chars, i + 2, i + 2 + j))))
                ELSE PatternErr
           [] OTHER -> ParseFrom(chars, i + 1, Append(tokens, Tok("Char", c)))

\* Pattern::new
PatternNew(pattern) == ParseFrom(pattern, 0, <<>>)

TokenAccepts(tok, c) ==
    CASE tok.t = "AnyChar" -> TRUE
      [] tok.t = "AnyWithin" -> StrContains(tok.c, c)
      [] tok.t = "AnyExcept" -> ~StrContains(tok.c, c)
      [] OTHER -> tok.c = c

\* Pattern::matches_from: "Match", "Sub" (this sub-pattern does not match) or
\* "Entire" (the file name ran out: no longer match can succeed either).
RECURSIVE MatchesFrom(_, _, _, _)
RECURSIVE StarLoop(_, _, _, _)
MatchesFrom(tokens, follows_separator, file, i) ==
    IF i > Len(tokens) THEN (IF file = "" THEN "Match" ELSE "Sub")
    ELSE IF tokens[i].t \in {"AnySequence", "AnyRecursiveSequence"} THEN
        LET m == MatchesFrom(tokens, follows_separator, file, i + 1)
        IN  IF m # "Sub" THEN m
            ELSE StarLoop(tokens, follows_separator, file, i)
    ELSE IF file = "" THEN "Entire"
    ELSE IF ~TokenAccepts(tokens[i], Head(file)) THEN "Sub"
    ELSE MatchesFrom(tokens, IsSeparator(Head(file)), Tail(file), i + 1)

StarLoop(tokens, follows_separator, file, i) ==
    IF file = "" THEN MatchesFrom(tokens, follows_separator, file, i + 1)
    ELSE IF tokens[i].t = "AnyRecursiveSequence" /\ ~IsSeparator(Head(file))
    THEN StarLoop(tokens, FALSE, Tail(file), i)
    ELSE LET m == MatchesFrom(tokens, IsSeparator(Head(file)), Tail(file), i + 1)
         IN  IF m # "Sub" THEN m
             ELSE StarLoop(tokens, IsSeparator(Head(file)), Tail(file), i)

\* Pattern::matches
PatternMatches(pattern, name) == MatchesFrom(pattern, TRUE, name, 1) = "Match"

\* patterns.iter().any(|pattern| pattern.matches(file_name))
AnyMatches(patterns, name) ==
    \E k \in 1..Len(patterns) : PatternMatches(patterns[k], name)

\* patterns.split(',').map(Pattern::new).collect::<Result<Vec<_>, _>>()
RECURSIVE CollectPatterns(_)
CollectPatterns(pieces) ==
    IF pieces = <<>> THEN [ok |-> TRUE, patterns |-> <<>>]
    ELSE LET first == PatternNew(Head(pieces))
             rest == CollectPatterns(Tail(pieces))
         IN  IF ~first.ok \/ ~rest.ok THEN [ok |-> FALSE, patterns |-> <<>>]
             ELSE [ok |-> TRUE, patterns |-> <<first.tokens>> \o rest.patterns]

\* Option<String>
None == [some |-> FALSE, s |-> ""]

Some(s) == [some |-> TRUE, s |-> s]

\* Mutant of CompilePatterns: a piece that does not compile is left out.
CompilePatterns_SkipMalformed(opt) ==
    IF opt.some
    THEN LET pieces == SplitComma(opt.s)
             good == SelectSeq(pieces, LAMBDA piece : PatternNew(piece).ok)
         IN  [ok |-> TRUE,
              patterns |-> [k \in 1..Len(good) |-> PatternNew(good[k]).tokens]]
    ELSE [ok |-> TRUE, patterns |-> <<>>]

\* The match on the option in FileProcessor::new.
CompilePatterns(opt) ==
    IF opt.some THEN CollectPatterns(SplitComma(opt.s))
    ELSE [ok |-> TRUE, patterns |-> <<>>]

(***************************************************************************)
(* FileProcessor::estimate_tokens                                          *)
(***************************************************************************)

\* char::is_whitespace, on ASCII
Whitespace == {" ", "\t", "\n", "\r", "\f"}

\* char::is_ascii_punctuation
AsciiPunctuation ==
    {"!", "\"", "#", "$", "%", "&", "'", "(", ")", "*", "+", ",", "-", ".",
     "/", ":", ";", "<", "=", ">", "?", "@", "[", "\\", "]", "^", "_", Backtick,
     "{", "|", "}", "~"}

Brackets == {"(", ")", "[", "]", "{", "}"}

Operators ==
    {"+", "-", "*", "/", "=", "<", ">", "&", "|", "!", "@", "#", "$", "%", "^"}

IsTokenSeparator(c) ==
    c \in Whitespace \/ c \in AsciiPunctuation \/ c \in Brackets \/ c \in Operators

\* str::split(closure): the pieces between the separator characters.
RECURSIVE SplitTokens(_, _)
SplitTokens(s, cur) ==
    IF s = "" THEN <<cur>>
    ELSE IF IsTokenSeparator(Head(s)) THEN <<cur>> \o SplitTokens(Tail(s), "")
    ELSE SplitTokens(Tail(s), cur \o Head(s))

\* Mutant of estimate_tokens: the empty pieces are counted too.
estimate_tokens_AllPieces(content) == Len(SplitTokens(content, ""))

\* .split(..).filter(|s| !s.is_empty()).count()
estimate_tokens(content) ==
    LET pieces == SplitTokens(content, "")
    IN  Cardinality({k \in 1..Len(pieces) : pieces[k] # ""})

(***************************************************************************)
(* FileProcessor                                                           *)
(***************************************************************************)

VARIABLES
    cfg,                \* what the caller configured: api, include, exclude
    constructed,        \* FileProcessor::new returned Ok(Self)
    include_patterns,
    exclude_patterns,
    processed_paths,
    target_files,
    result,
    current_dir,
    listing,            \* the order in which the file system lists a directory
    origin,             \* history: the walked path each FileInfo was made from
    called,             \* history: the roots process_path was called with
    call,               \* the last call on the processor and what it returned
    ncalls              \* the process_path calls made so far

vars ==
    <<cfg, constructed, include_patterns, exclude_patterns, processed_paths,
      target_files, result, current_dir, listing, origin, called, call,
      ncalls>>

\* The process_path calls one run makes.
MaxCalls == 3

\* The include and exclude strings a caller may pass.
IncludeOptions ==
    {None, Some(""), Some("*.rs"), Some("**/main.rs,*.dat"), Some("*.rs,a**")}

ExcludeOptions == {None, Some("test.rs,*.dat"), Some("[")}

\* The roots process_path is called with.
Roots ==
    { <<".">>, CWD, <<"src">>, <<"lnk">>, <<"src", "main.rs">>, <<"target">>,
      <<"nope">> }

Ok == [kind |-> "Ok", msg |-> ""]

IoError == [kind |-> "Io", msg |-> ""]

PatternError == [kind |-> "Pattern", msg |-> ""]

\* CflError::PathNotFound(path.display().to_string())
PathNotFound(path) == [kind |-> "PathNotFound", msg |-> Display(path)]

\* A call: its argument, what it returned (ret, and out for a returned
\* string) and, for a process_path that failed, the walker item it failed at.
Call(op, path, ret, at, out) ==
    [op |-> op, path |-> path, ret |-> ret, at |-> at, out |-> out]

\* FileProcessor::new: both strings compiled, then the empty processor.
New(api, include, exclude, incArg, excArg, dir, ord) ==
    LET inc == CompilePatterns(incArg)
        exc == CompilePatterns(excArg)
        ok == inc.ok /\ exc.ok
    IN  /\ cfg = [api |-> api, include |-> include, exclude |-> exclude]
        /\ constructed = ok
        /\ include_patterns = (IF ok THEN inc.patterns ELSE <<>>)
        /\ exclude_patterns = (IF ok THEN exc.patterns ELSE <<>>)
        /\ processed_paths = {}
        /\ target_files = <<>>
        /\ result = ""
        /\ current_dir = dir
        /\ listing = ord
        /\ origin = <<>>
        /\ called = {}
        /\ call = Call("new", <<>>, IF ok THEN Ok ELSE PatternError, 0, "")
        /\ ncalls = 0

\* CflBuilder::build: the options as the builder holds them.
NewFromBuilder ==
    \E include \in IncludeOptions, exclude \in ExcludeOptions, ord \in Orders :
        New("builder", include, exclude, include, exclude, CWD, ord)

\* Option::unwrap_or_default: an absent string becomes the empty string.
UnwrapOrDefault(opt) == IF opt.some THEN opt.s ELSE ""

\* main of the cfl binary (and copy_files_with_patterns): both options pass
\* through unwrap_or_default before they reach the builder.
NewFromCli ==
    \E include \in IncludeOptions, exclude \in ExcludeOptions, ord \in Orders :
        New("cli", include, exclude, Some(UnwrapOrDefault(include)),
            Some(UnwrapOrDefault(exclude)), CWD, ord)

Init == NewFromBuilder \/ NewFromCli

\* The fields process_file changes.
Acc == [processed_paths |-> processed_paths, target_files |-> target_files,
        result |-> result, origin |-> origin]

\* format!("```{}\n{}\n```\n", relative_path, content)
Block(relative_path, content) ==
    Backtick \o Backtick \o Backtick \o relative_path \o "\n" \o content
    \o "\n" \o Backtick \o Backtick \o Backtick \o "\n"

FileInfo(path, size, tokens) == [path |-> path, size |-> size, tokens |-> tokens]

\* Mutant of Rejected: a name an include pattern matches is accepted before
\* the exclude patterns are asked.
Rejected_IncludeFirst(file_name) ==
    IF include_patterns # <<>> /\ AnyMatches(include_patterns, file_name)
    THEN FALSE
    ELSE AnyMatches(exclude_patterns, file_name) \/ include_patterns # <<>>

\* excluded first, then the include set when it is not empty
Rejected(file_name) ==
    \/ AnyMatches(exclude_patterns, file_name)
    \/ include_patterns # <<>> /\ ~AnyMatches(include_patterns, file_name)

\* Mutant of AlreadyProcessed: the set is never consulted.
AlreadyProcessed_Never(paths, canonical_path) == FALSE

\* self.processed_paths.contains(&canonical_path)
AlreadyProcessed(paths, canonical_path) == canonical_path \in paths

\* path.strip_prefix(&self.current_dir).unwrap_or(path).to_string_lossy()
RelativePath(path) == Display(StripPrefixOr(path, current_dir))

\* Mutants of push_str: the block is put in front of the buffer; the block
\* replaces the buffer.
push_str_Front(buf, s) == s \o buf

push_str_Replace(buf, s) == s

\* String::push_str
push_str(buf, s) == buf \o s

\* Mutant of process_file: the canonical path enters the dedup set as soon as
\* it is found not to be in it, before the filter and the read.
process_file_InsertFirst(st, path) ==
    LET canonical_path == Canonicalize(path)
        file_name == FileName(path)
        content == FileContent(canonical_path)
        relative_path == RelativePath(path)
        seen == [st EXCEPT !.processed_paths = @ \cup {canonical_path}]
    IN  IF AlreadyProcessed(st.processed_paths, canonical_path)
        THEN [st |-> st, ret |-> Ok]
        ELSE IF Rejected(file_name) THEN [st |-> seen, ret |-> Ok]
        ELSE IF canonical_path \in UnreadableFiles
        THEN [st |-> seen, ret |-> IoError]
        ELSE [st |-> [target_files |->
                          Append(st.target_files,
                                 FileInfo(relative_path, Len(content),
                                          estimate_tokens(content))),
                      result |-> push_str(st.result, Block(relative_path, content)),
                      processed_paths |-> seen.processed_paths,
                      origin |-> Append(st.origin, path)],
              ret |-> Ok]

\* FileProcessor::process_file on the accumulated fields st
process_file(st, path) ==
    LET canonical_path == Canonicalize(path)
        file_name == FileName(path)
        content == FileContent(canonical_path)
        relative_path == RelativePath(path)
    IN  IF AlreadyProcessed(st.processed_paths, canonical_path)
        THEN [st |-> st, ret |-> Ok]
        ELSE IF Rejected(file_name) THEN [st |-> st, ret |-> Ok]
        ELSE IF canonical_path \in UnreadableFiles THEN [st |-> st, ret |-> IoError]
        ELSE [st |-> [target_files |->
                          Append(st.target_files,
                                 FileInfo(relative_path, Len(content),
                                          estimate_tokens(content))),
                      result |-> push_str(st.result, Block(relative_path, content)),
                      processed_paths |-> st.processed_paths \cup {canonical_path},
                      origin |-> Append(st.origin, path)],
              ret |-> Ok]

\* entry.file_type().map_or(false, |ft| ft.is_file())
IsFile(entry) == entry.ft = "file"

\* Mutants of WalkLoop: the loop ends at the walker's first Err item; a failed
\* process_file is skipped like a walker error; a walker error is returned.
RECURSIVE WalkLoop_StopAtWalkError(_, _, _)
WalkLoop_StopAtWalkError(st, walk, i) ==
    IF i > Len(walk) \/ walk[i].err THEN [st |-> st, ret |-> Ok, at |-> 0]
    ELSE IF IsFile(walk[i]) THEN
        LET r == process_file(st, walk[i].path)
        IN  IF r.ret.kind # "Ok" THEN [st |-> r.st, ret |-> r.ret, at |-> i]
            ELSE WalkLoop_StopAtWalkError(r.st, walk, i + 1)
    ELSE WalkLoop_StopAtWalkError(st, walk, i + 1)

RECURSIVE WalkLoop_SkipFailedFile(_, _, _)
WalkLoop_SkipFailedFile(st, walk, i) ==
    IF i > Len(walk) THEN [st |-> st, ret |-> Ok, at |-> 0]
    ELSE IF ~walk[i].err /\ IsFile(walk[i])
    THEN WalkLoop_SkipFailedFile(process_file(st, walk[i].path).st, walk, i + 1)
    ELSE WalkLoop_SkipFailedFile(st, walk, i + 1)

RECURSIVE WalkLoop_FailOnWalkError(_, _, _)
WalkLoop_FailOnWalkError(st, walk, i) ==
    IF i > Len(walk) THEN [st |-> st, ret |-> Ok, at |-> 0]
    ELSE IF walk[i].err THEN [st |-> st, ret |-> IoError, at |-> i]
    ELSE IF IsFile(walk[i]) THEN
        LET r == process_file(st, walk[i].path)
        IN  IF r.ret.kind # "Ok" THEN [st |-> r.st, ret |-> r.ret, at |-> i]
            ELSE WalkLoop_FailOnWalkError(r.st, walk, i + 1)
    ELSE WalkLoop_FailOnWalkError(st, walk, i + 1)

\* The loop of process_path over the walker's items, from item i on.
RECURSIVE WalkLoop(_, _, _)
WalkLoop(st, walk, i) ==
    IF i > Len(walk) THEN [st |-> st, ret |-> Ok, at |-> 0]
    ELSE IF walk[i].err THEN WalkLoop(st, walk, i + 1)
    ELSE IF IsFile(walk[i]) THEN
        LET r == process_file(st, walk[i].path)
        IN  IF r.ret.kind # "Ok" THEN [st |-> r.st, ret |-> r.ret, at |-> i]
            ELSE WalkLoop(r.st, walk, i + 1)
    ELSE WalkLoop(st, walk, i + 1)

\* FileProcessor::process_path
\* The file system does not change while the processor runs: the walk of each
\* root in each listing order is computed once.
WalkTable == {<<root, ord, Walk(root, ord)>> : root \in Roots, ord \in Orders}

\* The items of WalkBuilder::new(path) ... build()
WalkerItems(path, ord) ==
    (CHOOSE t \in WalkTable : t[1] = path /\ t[2] = ord)[3]

process_path(path) ==
    IF ~PathExists(path) THEN [st |-> Acc, ret |-> PathNotFound(path), at |-> 0]
    ELSE WalkLoop(Acc, WalkerItems(path, listing), 1)

ProcessPath(path) ==
    /\ constructed
    /\ ncalls < MaxCalls
    /\ LET r == process_path(path)
       IN  /\ processed_paths' = r.st.processed_paths
           /\ target_files' = r.st.target_files
           /\ result' = r.st.result
           /\ origin' = r.st.origin
           /\ call' = Call("process_path", path, r.ret, r.at, "")
    /\ called' = called \cup {path}
    /\ ncalls' = ncalls + 1
    /\ UNCHANGED <<cfg, constructed, include_patterns, exclude_patterns,
                   current_dir, listing>>

get_target_files == target_files

get_result == result

RECURSIVE SumSizes(_)
SumSizes(files) ==
    IF files = <<>> THEN 0 ELSE Head(files).size + SumSizes(Tail(files))

\* Mutant of get_total_size: the sizes of the records are added up.
get_total_size_OfRecords == SumSizes(target_files)

get_total_size == Len(result)

RECURSIVE SumTokens(_)
SumTokens(files) ==
    IF files = <<>> THEN 0 ELSE Head(files).tokens + SumTokens(Tail(files))

get_total_tokens == SumTokens(target_files)

(***************************************************************************)
(* FileProcessor::get_directory_structure                                  *)
(***************************************************************************)

\* The printable ASCII characters in code order: the order of bytes, by
\* which PathBuf compares the components of two paths.
AsciiOrder ==
    " !\"#$%&'()*+,-./0123456789:;<=>?@ABCDEFGHIJKLMNOPQRSTUVWXYZ[\\]^_"
    \o Backtick \o "abcdefghijklmnopqrstuvwxyz{|}~"

AsciiChars == [i \in 1..Len(AsciiOrder) |-> SubSeq(AsciiOrder, i, i)]

CodeOf(c) == CHOOSE i \in DOMAIN AsciiChars : AsciiChars[i] = c

RECURSIVE StrLess(_, _)
StrLess(a, b) ==
    IF b = "" THEN FALSE
    ELSE IF a = "" THEN TRUE
    ELSE IF Head(a) = Head(b) THEN StrLess(Tail(a), Tail(b))
    ELSE CodeOf(Head(a)) < CodeOf(Head(b))

\* Ord for PathBuf: component by component, a proper prefix first.
RECURSIVE PathLess(_, _)
PathLess(p, q) ==
    IF q = <<>> THEN FALSE
    ELSE IF p = <<>> THEN TRUE
    ELSE IF Head(p) = Head(q) THEN PathLess(Tail(p), Tail(q))
    ELSE StrLess(Head(p), Head(q))

\* BTreeMap<PathBuf, bool> as the sequence of its entries in key order.
TreeContainsKey(tree, key) == \E k \in 1..Len(tree) : tree[k].key = key

TreeInsert(tree, key, is_dir) ==
    LET before == SelectSeq(tree, LAMBDA e : PathLess(e.key, key))
        after == SelectSeq(tree, LAMBDA e : PathLess(key, e.key))
    IN  before \o <<[key |-> key, is_dir |-> is_dir]>> \o after

\* Mutant of StructureEntryKept: every Ok item is kept.
StructureEntryKept_All(entry) == ~entry.err

\* The filter over the walker's items: the Ok ones that are neither below a
\* .git directory nor named .git or .gitignore.
StructureEntryKept(entry) ==
    /\ ~entry.err
    /\ ~StrContains(Display(entry.path), "/.git/")
    /\ FileName(entry.path) # ""
    /\ FileName(entry.path) # ".git"
    /\ FileName(entry.path) # ".gitignore"

\* Mutant of AddComponents: only the entry itself is added, no ancestor.
AddComponents_EntryOnly(tree, relative, is_dir, k) ==
    IF TreeContainsKey(tree, relative) THEN tree
    ELSE TreeInsert(tree, relative, is_dir)

\* One entry's components: every ancestor it names is added as a directory.
RECURSIVE AddComponents(_, _, _, _)
AddComponents(tree, relative, is_dir, k) ==
    IF k > Len(relative) THEN tree
    ELSE LET current == SubSeq(relative, 1, k)
         IN  AddComponents(
                 IF TreeContainsKey(tree, current) THEN tree
                 ELSE TreeInsert(tree, current,
                                 IF current = relative THEN is_dir ELSE TRUE),
                 relative, is_dir, k + 1)

RECURSIVE BuildTree(_, _, _, _)
BuildTree(tree, entries, path, i) ==
    IF i > Len(entries) THEN tree
    ELSE IF ~IsPrefixSeq(path, entries[i].path)
            \/ StripPrefixOr(entries[i].path, path) = <<>>
    THEN BuildTree(tree, entries, path, i + 1)
    ELSE BuildTree(AddComponents(tree, StripPrefixOr(entries[i].path, path),
                                 entries[i].ft = "dir", 1),
                   entries, path, i + 1)

RECURSIVE Repeat(_, _)
Repeat(s, n) == IF n <= 0 THEN "" ELSE s \o Repeat(s, n - 1)

\* The tree glyph (U+2514 U+2500 U+2500 and a space), written in ASCII.
Branch == "|-- "

RECURSIVE RenderTree(_)
RenderTree(tree) ==
    IF tree = <<>> THEN ""
    ELSE LET path == Head(tree).key
             indent == Repeat("  ", Len(path) - 1)
             name == FileName(path)
         IN  (IF Head(tree).is_dir
              THEN indent \o Branch \o name \o "/" \o "\n"
              ELSE indent \o Branch \o name \o "\n")
             \o RenderTree(Tail(tree))

\* build_directory_structure from the walker's items on: filter, tree, text.
StructureOf(items, path) ==
    RenderTree(BuildTree(<<>>, SelectSeq(items, StructureEntryKept), path, 1))

build_directory_structure(path, ord) == StructureOf(Walk(path, ord), path)

\* The structure of the current directory in each listing order, computed
\* once for the same reason.
StructureTable ==
    {<<ord, build_directory_structure(CWD, ord)>> : ord \in Orders}

get_directory_structure ==
    IF current_dir = CWD
    THEN (CHOOSE t \in StructureTable : t[1] = listing)[2]
    ELSE build_directory_structure(current_dir, listing)

GetDirectoryStructure ==
    /\ constructed
    /\ call' = Call("get_directory_structure", <<>>, Ok, 0, get_directory_structure)
    /\ UNCHANGED <<cfg, constructed, include_patterns, exclude_patterns,
                   processed_paths, target_files, result, current_dir, listing,
                   origin, called, ncalls>>

Next ==
    \/ \E path \in Roots : ProcessPath(path)
    \/ GetDirectoryStructure

Spec == Init /\ [][Next]_vars

(***************************************************************************)
(* build_directory_structure over the trees a walker can yield: the        *)
(* sub-trees of a small directory tree that holds a directory named        *)
(* .gitignore, which the filter drops while keeping what lies below it.    *)
(***************************************************************************)

\* The nodes of the tree, as paths below the root, and which are directories.
TreeNodes ==
    { <<".git">>, <<".git", "HEAD">>, <<"a">>, <<"a", ".gitignore">>,
      <<"a", ".gitignore", "k">>, <<"a", ".gitignore", "k", "f">>,
      <<"a", "m.rs">>, <<"y">>, <<"z">> }

TreeDirs ==
    { <<".git">>, <<"a">>, <<"a", ".gitignore">>, <<"a", ".gitignore", "k">> }

\* A directory tree: with every node its parent.
Trees ==
    {S \in SUBSET TreeNodes :
        \A n \in S : Len(n) > 1 => SubSeq(n, 1, Len(n) - 1) \in S}

\* Depth first, a directory before its entries, the entries of a directory
\* by name, ascending or descending.
WalkBefore(p, q, ord) ==
    IF ord = "fwd" THEN PathLess(p, q)
    ELSE \/ IsPrefixSeq(p, q) /\ p # q
         \/ ~IsPrefixSeq(q, p) /\ PathLess(q, p)

RECURSIVE WalkTree(_, _, _)
WalkTree(root, S, ord) ==
    IF S = {} THEN <<>>
    ELSE LET n == CHOOSE x \in S : \A y \in S \ {x} : WalkBefore(x, y, ord)
         IN  <<OkEntry(root \o n, IF n \in TreeDirs THEN "dir" ELSE "file")>>
             \o WalkTree(root, S \ {n}, ord)

\* The walker's items for the tree S below the current directory.
TreeItems(S, ord) == <<OkEntry(CWD, "dir")>> \o WalkTree(CWD, S, ord)

InitTree == New("tree", None, None, None, None, CWD, "fwd")

BuildDirectoryStructure(S, ord) ==
    /\ constructed
    /\ call' = Call("build_directory_structure", TreeItems(S, ord), Ok, 0,
                    StructureOf(TreeItems(S, ord), current_dir))
    /\ UNCHANGED <<cfg, constructed, include_patterns, exclude_patterns,
                   processed_paths, target_files, result, current_dir, listing,
                   origin, called, ncalls>>

NextTree == \E S \in Trees, ord \in Orders : BuildDirectoryStructure(S, ord)

SpecTree == InitTree /\ [][NextTree]_vars

(***************************************************************************)
(* estimate_tokens over the content strings of a small alphabet, beside    *)
(* the files process_path records.                                         *)
(***************************************************************************)

MaxContentLen == 3

ContentChars == {"a", "b", " ", "\n", "(", "_"}

RECURSIVE StringsUpTo(_)
StringsUpTo(n) ==
    IF n = 0 THEN {""}
    ELSE LET shorter == StringsUpTo(n - 1)
         IN  shorter \cup {str \o c : str \in shorter, c \in ContentChars}

Contents == StringsUpTo(MaxContentLen)

\* A processor as FileProcessor::new returns it, and a content string.
InitTokens ==
    \E content \in Contents :
        /\ cfg = [api |-> "builder", include |-> None,
                  exclude |-> Some("test.rs,*.dat")]
        /\ constructed = TRUE
        /\ include_patterns = CompilePatterns(cfg.include).patterns
        /\ exclude_patterns = CompilePatterns(cfg.exclude).patterns
        /\ processed_paths = {}
        /\ target_files = <<>>
        /\ result = ""
        /\ current_dir = CWD
        /\ listing = "fwd"
        /\ origin = <<>>
        /\ called = {}
        /\ call = Call("content", content, Ok, 0, 0)
        /\ ncalls = 0

EstimateTokens ==
    /\ call.op = "content"
    /\ call' = Call("estimate_tokens", call.path, Ok, 0, estimate_tokens(call.path))
    /\ UNCHANGED <<cfg, constructed, include_patterns, exclude_patterns,
                   processed_paths, target_files, result, current_dir, listing,
                   origin, called, ncalls>>

NextTokens ==
    \/ EstimateTokens
    \/ \E path \in Roots : ProcessPath(path)

SpecTokens == InitTokens /\ [][NextTokens]_vars

(***************************************************************************)
(* Properties                                                              *)
(***************************************************************************)

Range(seq) == {seq[k] : k \in 1..Len(seq)}

\* The walker's items in a process_path call c on a path that exists.
WalkOf(c) ==
    IF c.op = "process_path" /\ Kind(Canonicalize(c.path)) # "none"
    THEN WalkerItems(c.path, listing)
    ELSE <<>>

\* How many of the walker's items the loop of call c took.
Consumed(c) == IF c.ret.kind = "Ok" THEN Len(WalkOf(c)) ELSE c.at

\* The filter policy, stated on a base name.
FilterAccepts(name) ==
    /\ \A k \in 1..Len(exclude_patterns) : ~PatternMatches(exclude_patterns[k], name)
    /\ \/ Len(include_patterns) = 0
       \/ \E k \in 1..Len(include_patterns) : PatternMatches(include_patterns[k], name)

\* A walker item that is a file the filter passes and whose canonical path
\* is not among seen.
Acceptable(entry, seen) ==
    /\ ~entry.err
    /\ entry.ft = "file"
    /\ FilterAccepts(FileName(entry.path))
    /\ Canonicalize(entry.path) \notin seen

\* Such an item whose content cannot be read.
ReadFails(entry, seen) ==
    Acceptable(entry, seen) /\ Canonicalize(entry.path) \in UnreadableFiles

\* The walked paths to be recorded from items i..upto of walk, in order.
RECURSIVE ExpectedNew(_, _, _, _)
ExpectedNew(walk, i, upto, seen) ==
    IF i > upto THEN <<>>
    ELSE IF Acceptable(walk[i], seen)
    THEN <<walk[i].path>>
         \o ExpectedNew(walk, i + 1, upto, seen \cup {Canonicalize(walk[i].path)})
    ELSE ExpectedNew(walk, i + 1, upto, seen)

Fence == Backtick \o Backtick \o Backtick

\* The fenced block of one file.
ExpectedBlock(path, content) ==
    Fence \o path \o "\n" \o content \o "\n" \o Fence \o "\n"

RECURSIVE ExpectedResult(_, _)
ExpectedResult(files, paths) ==
    IF files = <<>> THEN ""
    ELSE ExpectedBlock(Head(files).path, FileContent(Canonicalize(Head(paths))))
         \o ExpectedResult(Tail(files), Tail(paths))

\* C1: no two FileInfo records come from the same canonical path, whatever
\* roots process_path was called with, and calling process_path again on a
\* root it was already called with adds no FileInfo.
C1_NoDuplicateFiles ==
    /\ Len(origin) = Len(target_files)
    /\ \A i \in 1..Len(origin) : target_files[i].path = RelativePath(origin[i])
    /\ \A i, j \in 1..Len(origin) :
           i # j => Canonicalize(origin[i]) # Canonicalize(origin[j])
    /\ \A root \in called :
           constructed => process_path(root).st.target_files = target_files

\* A second root led to a file already recorded from another walked path.
C1_Witness ==
    /\ call.op = "process_path"
    /\ call.ret.kind = "Ok"
    /\ \E i \in 1..Len(WalkOf(call)) :
           /\ WalkOf(call)[i].ft = "file"
           /\ FilterAccepts(FileName(WalkOf(call)[i].path))
           /\ WalkOf(call)[i].path \notin Range(origin)
           /\ \E k \in 1..Len(origin) :
                  Canonicalize(origin[k]) = Canonicalize(WalkOf(call)[i].path)

\* C2: a walked file new to the dedup set is accepted by process_file (it is
\* read, and recorded when the read succeeds) if and only if no exclude
\* pattern matches its base name and the include set is empty or one of its
\* patterns matches; no recorded file's name matches both an include and an
\* exclude pattern.
C2_FilterPolicy ==
    [][call'.op = "process_path" =>
        /\ \A i \in 1..Consumed(call') :
               WalkOf(call')[i].ft = "file" =>
                   ((\/ \E k \in (Len(origin) + 1)..Len(origin') :
                           origin'[k] = WalkOf(call')[i].path
                     \/ call'.ret.kind = "Io" /\ call'.at = i)
                    <=> Acceptable(WalkOf(call')[i], processed_paths))
        /\ \A k \in 1..Len(origin') :
               ~(/\ AnyMatches(include_patterns, FileName(origin'[k]))
                 /\ AnyMatches(exclude_patterns, FileName(origin'[k])))]_vars

\* A walk met a file whose name matches an include and an exclude pattern, and
\* recorded others.
C2_Witness ==
    /\ call.op = "process_path"
    /\ call.ret.kind = "Ok"
    /\ target_files # <<>>
    /\ \E i \in 1..Len(WalkOf(call)) :
           /\ WalkOf(call)[i].ft = "file"
           /\ AnyMatches(include_patterns, FileName(WalkOf(call)[i].path))
           /\ AnyMatches(exclude_patterns, FileName(WalkOf(call)[i].path))
           /\ Canonicalize(WalkOf(call)[i].path) \notin processed_paths

\* C3: an include or exclude string that is empty or absent compiles to the
\* empty pattern set, and a processor built with an empty include string
\* records every walked file that is not excluded.
C3_EmptyStringIsEmptySet ==
    constructed =>
        /\ UnwrapOrDefault(cfg.include) = "" => include_patterns = <<>>
        /\ UnwrapOrDefault(cfg.exclude) = "" => exclude_patterns = <<>>
        /\ (UnwrapOrDefault(cfg.include) = "" /\ call.op = "process_path"
                /\ call.ret.kind = "Ok") =>
               \A i \in 1..Len(WalkOf(call)) :
                   (/\ WalkOf(call)[i].ft = "file"
                    /\ ~AnyMatches(exclude_patterns, FileName(WalkOf(call)[i].path)))
                   => Canonicalize(WalkOf(call)[i].path) \in processed_paths

\* C4: the result buffer is the concatenation, in the order of target_files,
\* of one fenced block per FileInfo, and holds as many blocks as there are
\* records.
C4_ResultIsBlocks ==
    /\ Len(origin) = Len(target_files)
    /\ result = ExpectedResult(target_files, origin)
    /\ Occurrences(result, "\n" \o Fence \o "\n") = Len(target_files)

\* Several files were recorded and the last process_path failed.
C4_Witness ==
    /\ Len(target_files) >= 3
    /\ ncalls >= 2
    /\ call.op = "process_path"
    /\ call.ret.kind = "Io"

\* C5: get_total_size is the byte length of the result buffer, that is the
\* sizes of the records plus the bytes of the fence lines of each, and not
\* the sum of the sizes; it is 0 exactly when nothing was recorded.
RECURSIVE SumBlockBytes(_)
SumBlockBytes(files) ==
    IF files = <<>> THEN 0
    ELSE Head(files).size + Len(Head(files).path) + 9 + SumBlockBytes(Tail(files))

C6_EveryAcceptableFileOnce ==
    [][(call'.op = "process_path" /\ call'.ret.kind = "Ok") =>
        \A i \in 1..Len(WalkOf(call')) :
            Acceptable(WalkOf(call')[i], processed_paths) =>
                /\ Cardinality({k \in 1..Len(origin') :
                       Canonicalize(origin'[k])
                           = Canonicalize(WalkOf(call')[i].path)}) = 1
                /\ Cardinality({k \in 1..Len(target_files') :
                       target_files'[k].path
                           = RelativePath(WalkOf(call')[i].path)}) = 1
                /\ Occurrences(result',
                       ExpectedBlock(RelativePath(WalkOf(call')[i].path),
                           FileContent(Canonicalize(WalkOf(call')[i].path)))) = 1]_vars

\* A successful walk of a directory recorded several files, one of them after
\* a walker error.
C6_Witness ==
    /\ ncalls = 1
    /\ call.ret.kind = "Ok"
    /\ Len(target_files) >= 3
    /\ \E i \in 1..Len(WalkOf(call)) :
           /\ WalkOf(call)[i].err
           /\ \E j \in (i + 1)..Len(WalkOf(call)) :
                  WalkOf(call)[j].path \in Range(origin)

\* C7: every operation leaves the records and the buffer it found as a prefix
\* of the records and the buffer it leaves, and removes nothing from the
\* dedup set.
C7_OnlyGrows ==
    [][/\ IsPrefixSeq(target_files, target_files')
       /\ IsPrefixStr(result, result')
       /\ processed_paths \subseteq processed_paths']_vars

\* get_directory_structure was called on a processor holding records.
C7_Witness ==
    /\ call.op = "get_directory_structure"
    /\ Len(target_files) >= 2
    /\ result # ""

\* C8: process_path on a path that does not exist returns PathNotFound naming
\* the path and changes neither target_files nor the result nor the dedup
\* set; it returns PathNotFound for no other path.
C8_PathNotFound ==
    [][call'.op = "process_path" =>
        /\ Kind(Canonicalize(call'.path)) = "none" =>
               /\ call'.ret = [kind |-> "PathNotFound", msg |-> Display(call'.path)]
               /\ call'.at = 0
               /\ UNCHANGED <<target_files, result, processed_paths>>
        /\ call'.ret.kind = "PathNotFound" =>
               Kind(Canonicalize(call'.path)) = "none"]_vars

\* A missing path was processed after files had been recorded.
C8_Witness ==
    /\ call.op = "process_path"
    /\ call.ret.kind = "PathNotFound"
    /\ target_files # <<>>
    /\ processed_paths # {}

\* C9: when reading a file that passed filter and dedup fails, process_path
\* returns the error at that file, the files accepted earlier in the walk are
\* recorded, nothing after it is, and the file itself leaves no record, no
\* block and no dedup entry; a walk with such a file fails at the first one.
C9_ReadFailureAborts ==
    [][call'.op = "process_path" =>
        /\ call'.ret.kind = "Io" =>
               /\ call'.at \in 1..Len(WalkOf(call'))
               /\ ReadFails(WalkOf(call')[call'.at], processed_paths)
               /\ origin' = origin
                      \o ExpectedNew(WalkOf(call'), 1, call'.at - 1, processed_paths)
               /\ Len(target_files') = Len(origin')
               /\ IsPrefixSeq(target_files, target_files')
               /\ result' = ExpectedResult(target_files', origin')
               /\ Canonicalize(WalkOf(call')[call'.at].path) \notin processed_paths'
               /\ WalkOf(call')[call'.at].path \notin Range(origin')
               /\ ~StrContains(result',
                      Fence \o RelativePath(WalkOf(call')[call'.at].path) \o "\n")
        /\ \A k \in 1..Len(WalkOf(call')) :
               ReadFails(WalkOf(call')[k], processed_paths) =>
                   call'.ret.kind = "Io" /\ call'.at <= k]_vars

\* The first call recorded a file, then failed on an unreadable one with an
\* acceptable file still to come.
C9_Witness ==
    /\ ncalls = 1
    /\ call.ret.kind = "Io"
    /\ target_files # <<>>
    /\ \E j \in (call.at + 1)..Len(WalkOf(call)) :
           Acceptable(WalkOf(call)[j], processed_paths)

IgnoredUnder(rootc, c, strict) ==
    /\ IsPrefixSeq(rootc, c)
    /\ \E k \in (Len(rootc) + (IF strict THEN 1 ELSE 0))..Len(c) :
           k > Len(CWD) /\ IgnoreMatched(SubSeq(c, 1, k))

\* The path the walker of root gives the file c under it.
WalkedPath(root, c) ==
    root \o SubSeq(c, Len(Canonicalize(root)) + 1, Len(c))

\* The file c was recorded: it is in the dedup set, a record came from it or
\* the buffer holds a block of it as walked from root.
Recorded(root, c, paths, origins, buffer) ==
    \/ c \in paths
    \/ \E k \in 1..Len(origins) : Canonicalize(origins[k]) = c
    \/ StrContains(buffer,
           ExpectedBlock(RelativePath(WalkedPath(root, c)), FileContent(c)))

\* C11 as claimed: after process_path on a root that encloses it, a file an
\* ignore rule matches, or that lies beneath a directory an ignore rule
\* matches, is neither in target_files nor in the result.
C11_IgnoredNeverRecorded ==
    (call.op = "process_path" /\ call.ret.kind = "Ok") =>
        \A c \in Files :
            IgnoredUnder(Canonicalize(call.path), c, FALSE)
            => ~Recorded(call.path, c, processed_paths, origin, result)

\* C11: a process_path call records no file that an ignore rule matches, or
\* that lies beneath a directory an ignore rule matches, when the matched
\* file or directory is strictly below the root of the call; the root itself
\* is walked even when an ignore rule matches it.
C11_IgnoredBelowRootNotRecorded ==
    [][call'.op = "process_path" =>
        \A c \in Files :
            IgnoredUnder(Canonicalize(call'.path), c, TRUE) =>
                /\ c \in processed_paths' => c \in processed_paths
                /\ \A k \in (Len(origin) + 1)..Len(origin') :
                       Canonicalize(origin'[k]) # c
                /\ Occurrences(result',
                       ExpectedBlock(RelativePath(WalkedPath(call'.path, c)),
                                     FileContent(c)))
                   = Occurrences(result,
                       ExpectedBlock(RelativePath(WalkedPath(call'.path, c)),
                                     FileContent(c)))]_vars

\* The working directory was walked with an include pattern that matches a
\* file of the ignored directory, and that file was not recorded.
C11_Witness ==
    /\ call.op = "process_path"
    /\ call.ret.kind = "Ok"
    /\ Canonicalize(call.path) = CWD
    /\ target_files # <<>>
    /\ include_patterns # <<>>
    /\ AnyMatches(include_patterns, "out.rs")
    /\ ~AnyMatches(exclude_patterns, "out.rs")
    /\ CWD \o <<"target", "out.rs">> \notin processed_paths

\* The lines of a text whose every line ends with a line feed.
Lines(text) ==
    LET ends == {i \in 1..Len(text) : SubSeq(text, i, i) = "\n"}
        EndOf(k) == IF k = 0 THEN 0
                    ELSE CHOOSE i \in ends :
                             Cardinality({j \in ends : j < i}) = k - 1
    IN  [k \in 1..Cardinality(ends) |->
            SubSeq(text, EndOf(k - 1) + 1, EndOf(k) - 1)]

\* The line get_directory_structure prints for an entry depth components
\* below the root.
ExpectedLine(depth, name, is_dir) ==
    Repeat("  ", depth - 1) \o Branch \o name \o (IF is_dir THEN "/" ELSE "")

\* The name a line of the structure shows: the line without its indent, its
\* glyph and the "/" of a directory.
RECURSIVE LineName(_)
LineName(line) ==
    IF IsPrefixStr("  ", line) THEN LineName(SubSeq(line, 3, Len(line)))
    ELSE LET rest == IF IsPrefixStr(Branch, line)
                     THEN SubSeq(line, Len(Branch) + 1, Len(line))
                     ELSE line
         IN  IF EndsWith(rest, "/") THEN SubSeq(rest, 1, Len(rest) - 1) ELSE rest

\* The entries the walker yields below the current directory, as paths
\* relative to it with their kind.
WalkedBelowRoot ==
    LET walk == WalkerItems(current_dir, listing)
    IN  {[rel |-> StripPrefixOr(walk[k].path, current_dir),
          is_dir |-> walk[k].ft = "dir"] :
            k \in {i \in 1..Len(walk) :
                      ~walk[i].err /\ walk[i].path # current_dir}}

\* Such an entry is the .git directory, lies below it, or is .gitignore.
IsVersionControlEntry(e) ==
    \/ \E k \in 1..Len(e.rel) : e.rel[k] = ".git"
    \/ e.rel[Len(e.rel)] = ".gitignore"

ShownEntries(items) ==
    {e \in {[rel |-> StripPrefixOr(items[k].path, current_dir),
             is_dir |-> items[k].ft = "dir"] :
               k \in {i \in 1..Len(items) :
                         ~items[i].err /\ items[i].path # current_dir}} :
        ~IsVersionControlEntry(e)}

\* Every path a line is due for: the shown entries and all their ancestors
\* below the current directory.
ShownKeys(items) ==
    UNION {{SubSeq(e.rel, 1, k) : k \in 1..Len(e.rel)} : e \in ShownEntries(items)}

\* A key is printed as a directory when it is an ancestor of a shown entry or
\* a shown directory.
ShownAsDir(items, key) ==
    \E e \in ShownEntries(items) :
        \/ IsPrefixSeq(key, e.rel) /\ key # e.rel
        \/ e.rel = key /\ e.is_dir

\* The number of the line of a key: the keys are printed in path order.
LineOf(items, key) ==
    1 + Cardinality({q \in ShownKeys(items) : PathLess(q, key)})

\* The number of indent units a line starts with.
RECURSIVE IndentOf(_)
IndentOf(line) ==
    IF IsPrefixStr("  ", line) THEN 1 + IndentOf(SubSeq(line, 3, Len(line)))
    ELSE 0

\* C13: every line of the structure that is not for an entry directly under
\* the root comes after the line of its parent directory, which ends with "/"
\* and is indented exactly one unit less, with only deeper lines in between;
\* the parent has its line also when the walker's items do not hold it.
C13_ParentLineFirst ==
    call.op = "build_directory_structure" =>
        LET items == call.path
            lines == Lines(call.out)
        IN  /\ Len(lines) = Cardinality(ShownKeys(items))
            /\ \A key \in ShownKeys(items) :
                   LET k == LineOf(items, key)
                       parent == SubSeq(key, 1, Len(key) - 1)
                       j == LineOf(items, parent)
                   IN  /\ lines[k] = ExpectedLine(Len(key), key[Len(key)],
                                                  ShownAsDir(items, key))
                       /\ IndentOf(lines[k]) = Len(key) - 1
                       /\ Len(key) > 1 =>
                              /\ parent \in ShownKeys(items)
                              /\ j < k
                              /\ lines[j] = ExpectedLine(Len(parent),
                                                parent[Len(parent)], TRUE)
                              /\ EndsWith(lines[j], "/")
                              /\ IndentOf(lines[k]) = IndentOf(lines[j]) + 1
                              /\ \A i \in (j + 1)..k :
                                     IndentOf(lines[i]) > IndentOf(lines[j])

\* The items hold a file three directories deep whose parent's parent, a
\* directory named .gitignore, the filter dropped; the file has its line.
C13_Witness ==
    /\ call.op = "build_directory_structure"
    /\ \E k \in 1..Len(call.path) :
           call.path[k].path = CWD \o <<"a", ".gitignore", "k", "f">>
    /\ \E e \in ShownEntries(call.path) : e.rel = <<"a", ".gitignore", "k", "f">>
    /\ \A e \in ShownEntries(call.path) : e.rel # <<"a", ".gitignore">>
    /\ \E k \in 1..Len(Lines(call.out)) :
           Lines(call.out)[k] = ExpectedLine(4, "f", FALSE)

\* The string FileProcessor::new is given for an option of the caller.
GivenTo(opt) == IF cfg.api = "cli" THEN Some(UnwrapOrDefault(opt)) ELSE opt

\* A piece of the comma-separated string is not a glob.
HasMalformedGlob(opt) ==
    /\ opt.some
    /\ \E k \in 1..Len(SplitComma(opt.s)) : ~PatternNew(SplitComma(opt.s)[k]).ok

\* C14: construction fails with a Pattern error exactly when a piece of the
\* include or exclude string is a malformed glob; then there is no processor,
\* no operation on it ever runs and nothing is recorded; and no process_path
\* call returns a Pattern error.
C14_MalformedGlobFailsConstruction ==
    /\ ~constructed <=> (\/ HasMalformedGlob(GivenTo(cfg.include))
                         \/ HasMalformedGlob(GivenTo(cfg.exclude)))
    /\ cfg.exclude = Some("[") => ~constructed
    /\ cfg.include = Some("*.rs,a**") => ~constructed
    /\ ~constructed =>
           /\ call = Call("new", <<>>, PatternError, 0, "")
           /\ ncalls = 0
           /\ called = {}
           /\ target_files = <<>>
           /\ result = ""
           /\ processed_paths = {}
           /\ \A path \in Roots : ~ENABLED ProcessPath(path)
           /\ ~ENABLED GetDirectoryStructure
    /\ constructed =>
           /\ call.op = "new" => call.ret = Ok
           /\ call.ret.kind # "Pattern"
           /\ Len(include_patterns)
                  = (IF GivenTo(cfg.include).some
                     THEN Len(SplitComma(GivenTo(cfg.include).s)) ELSE 0)
           /\ Len(exclude_patterns)
                  = (IF GivenTo(cfg.exclude).some
                     THEN Len(SplitComma(GivenTo(cfg.exclude).s)) ELSE 0)

\* Construction with a well-formed piece followed by a malformed one failed.
C14_Witness ==
    /\ ~constructed
    /\ call.op = "new"
    /\ call.ret.kind = "Pattern"
    /\ cfg.include = Some("*.rs,a**")
    /\ ~HasMalformedGlob(GivenTo(cfg.exclude))

\* The characters estimate_tokens splits at.
SeparatorChars ==
    " \t\n\r\f!\"#$%&'()*+,-./:;<=>?@[\\]^_{|}~" \o Backtick

IsSeparatorChar(c) == StrContains(SeparatorChars, c)

\* The number of maximal non-empty runs of characters that are no
\* separators: the positions where such a run starts.
Runs(content) ==
    Cardinality({i \in 1..Len(content) :
        /\ ~IsSeparatorChar(SubSeq(content, i, i))
        /\ i = 1 \/ IsSeparatorChar(SubSeq(content, i - 1, i - 1))})

RECURSIVE SumRuns(_)
SumRuns(paths) ==
    IF paths = <<>> THEN 0
    ELSE Runs(FileContent(Canonicalize(Head(paths)))) + SumRuns(Tail(paths))

\* C15: estimate_tokens of a content string is the number of its maximal
\* non-empty runs of characters that are neither whitespace nor ASCII
\* punctuation nor a listed bracket or operator; it is positive when the
\* content has such a character; the tokens of every record is that number
\* for the content of its file, and get_total_tokens is their sum.
C15_TokensAreRuns ==
    /\ call.op = "estimate_tokens" =>
           /\ call.out = Runs(call.path)
           /\ call.out = estimate_tokens(call.path)
           /\ (\E i \in 1..Len(call.path) :
                   ~IsSeparatorChar(SubSeq(call.path, i, i))) <=> call.out > 0
           /\ call.out <= (Len(call.path) + 1) \div 2
    /\ Len(origin) = Len(target_files)
    /\ \A i \in 1..Len(target_files) :
           target_files[i].tokens = Runs(FileContent(Canonicalize(origin[i])))
    /\ get_total_tokens = SumRuns(origin)

\* A content of two runs parted by an underscore was counted.
C15_Witness ==
    /\ call.op = "estimate_tokens"
    /\ Len(call.path) = 3
    /\ SubSeq(call.path, 2, 2) = "_"
    /\ call.out = 2

\* The walk of root holds a file item of the canonical path c.
WalkHolds(root, c) ==
    /\ Kind(Canonicalize(root)) # "none"
    /\ \E i \in 1..Len(WalkerItems(root, listing)) :
           /\ WalkerItems(root, listing)[i].ft = "file"
           /\ Canonicalize(WalkerItems(root, listing)[i].path) = c

====
